---- MODULE Spec2Model ----
(***************************************************************************)
(* Model of the two generator scripts create_simple_model.py (the          *)
(* "trainer" script) and create_simple_model_manual.py (the "manual"       *)
(* script).  Each script is a straight line of library calls that ends by  *)
(* writing simple_model.mlmodel and printing a few lines.  A user runs the *)
(* scripts one after the other, in any order, a bounded number of times.   *)
(* Every library call may raise; nothing in either script catches it.      *)
(*                                                                         *)
(* Numbers are exact rationals [num, den] in lowest terms with den > 0.    *)
(***************************************************************************)
EXTENDS Integers, Sequences, FiniteSets

\* ---------------------------------------------------------------- bounds
MaxRuns == 3
MaxInput == 3

\* ------------------------------------------------------ rational numbers
\* Each operation binds its operands once (v \in {operand}) before using
\* them, so an operand is evaluated a single time however deep the
\* expression that supplies it.
Abs(a) == IF a < 0 THEN -a ELSE a

RECURSIVE GCD(_, _)
GCD(a, b) ==
    CHOOSE g \in {IF q = 0 THEN Abs(p) ELSE GCD(q, p % q) : p \in {a}, q \in {b}} : TRUE

Rat(n, d) ==
    CHOOSE r \in {[num |-> ((IF q < 0 THEN -1 ELSE 1) * p) \div g,
                   den |-> Abs(q) \div g] :
                  p \in {n}, q \in {d}, g \in {GCD(Abs(n), Abs(d))}} : TRUE

R(n) == [num |-> n, den |-> 1]

RAdd(a, b) ==
    CHOOSE r \in {Rat(p.num * q.den + q.num * p.den, p.den * q.den) :
                  p \in {a}, q \in {b}} : TRUE
RSub(a, b) ==
    CHOOSE r \in {Rat(p.num * q.den - q.num * p.den, p.den * q.den) :
                  p \in {a}, q \in {b}} : TRUE
RMul(a, b) ==
    CHOOSE r \in {Rat(p.num * q.num, p.den * q.den) : p \in {a}, q \in {b}} : TRUE
RDiv(a, b) ==
    CHOOSE r \in {Rat(p.num * q.den, p.den * q.num) : p \in {a}, q \in {b}} : TRUE

RECURSIVE RSumTo(_, _)
RSumTo(s, n) == IF n = 0 THEN R(0) ELSE RAdd(RSumTo(s, n - 1), s[n])

RSum(s) == CHOOSE r \in {RSumTo(v, Len(v)) : v \in {s}} : TRUE

\* --------------------------------------------------- the literal samples
\* X is a 5 x 1 array, y a vector of 5 targets.
X == << <<R(1)>>, <<R(2)>>, <<R(3)>>, <<R(4)>>, <<R(5)>> >>
y == << R(3), R(5), R(7), R(9), R(11) >>

\* ------------------------------------------------------------ null values
None == [kind |-> "None"]
NoFile == [kind |-> "absent"]
Truncated == [kind |-> "truncated"]

\* ----------------------------------------------- LinearRegression().fit
LinearRegression == [kind |-> "LinearRegression", fitted |-> FALSE]

\* Variant: the mean divides by one sample too few.
MeanOffByOne(s) == RDiv(RSum(s), R(Len(s) - 1))
Mean(s) == RDiv(RSum(s), R(Len(s)))

\* Variant: a fit through the origin (no intercept term).
FitNoIntercept(m, XX, yy) ==
    LET xs == [i \in 1..Len(XX) |-> XX[i][1]]
        sxy == RSum([i \in 1..Len(xs) |-> RMul(xs[i], yy[i])])
        sxx == RSum([i \in 1..Len(xs) |-> RMul(xs[i], xs[i])])
    IN  [kind |-> "LinearRegression", fitted |-> TRUE,
         coef_ |-> <<RDiv(sxy, sxx)>>, intercept_ |-> R(0)]

\* Ordinary least squares with an intercept, one feature: centre the data,
\* solve the centred system, recover the intercept from the means.  The
\* library works in floating point; here the solution is exact.
fit(m, XX, yy) ==
    LET xs == [i \in 1..Len(XX) |-> XX[i][1]]
        xbar == Mean(xs)
        ybar == Mean(yy)
        sxy == RSum([i \in 1..Len(xs) |->
                     RMul(RSub(xs[i], xbar), RSub(yy[i], ybar))])
        sxx == RSum([i \in 1..Len(xs) |->
                     RMul(RSub(xs[i], xbar), RSub(xs[i], xbar))])
        w == RDiv(sxy, sxx)
    IN  [kind |-> "LinearRegression", fitted |-> TRUE,
         coef_ |-> <<w>>, intercept_ |-> RSub(ybar, RMul(w, xbar))]

\* Sum of squared residuals of a fitted model over the samples.
Residual(m, XX, yy) ==
    RSum([i \in 1..Len(XX) |->
          LET e == RSub(yy[i], RAdd(RMul(m.coef_[1], XX[i][1]), m.intercept_))
          IN  RMul(e, e)])

\* ------------------------------------------------ model description parts
EmptyMetadata == [shortDescription |-> "", author |-> "", versionString |-> ""]

Feature(name, type) == [name |-> name, type |-> type]

\* Variant: the converter ignores output_feature_names.
convertUnnamedOutput(m, input_features, output_feature_names) ==
    [kind |-> "MLModel",
     spec |-> [description |->
                 [input |-> [i \in 1..Len(input_features) |->
                               Feature(input_features[i][1], input_features[i][2])],
                  output |-> <<Feature("prediction", "double")>>,
                  metadata |-> EmptyMetadata],
               type |-> "glmRegressor",
               glmRegressor |-> [weights |-> <<m.coef_>>,
                                 offset |-> <<m.intercept_>>]]]

\* ct.converters.sklearn.convert on a fitted linear regressor: a GLM
\* regressor holding the coefficients and the intercept, one double output.
convert(m, input_features, output_feature_names) ==
    [kind |-> "MLModel",
     spec |-> [description |->
                 [input |-> [i \in 1..Len(input_features) |->
                               Feature(input_features[i][1], input_features[i][2])],
                  output |-> <<Feature(output_feature_names[1], "double")>>,
                  metadata |-> EmptyMetadata],
               type |-> "glmRegressor",
               glmRegressor |-> [weights |-> <<m.coef_>>,
                                 offset |-> <<m.intercept_>>]]]

\* NeuralNetworkBuilder(input_features, output_features): a network
\* description with the declared features and no layer yet.
NeuralNetworkBuilder(input_features, output_features) ==
    [kind |-> "NeuralNetworkBuilder",
     spec |-> [description |->
                 [input |-> [i \in 1..Len(input_features) |->
                               Feature(input_features[i][1], input_features[i][2])],
                  output |-> [i \in 1..Len(output_features) |->
                               Feature(output_features[i][1], output_features[i][2])],
                  metadata |-> EmptyMetadata],
               type |-> "neuralNetwork",
               neuralNetwork |-> [layers |-> <<>>]]]

\* Variant: W and b stored in each other's place.
add_inner_product_swapped(b, name, W, bias, input_channels, output_channels, has_bias, input_name, output_name) ==
    [b EXCEPT !.spec.neuralNetwork.layers =
        Append(@, [name |-> name, input |-> <<input_name>>,
                   output |-> <<output_name>>,
                   innerProduct |-> [inputChannels |-> input_channels,
                                     outputChannels |-> output_channels,
                                     hasBias |-> has_bias,
                                     weights |-> <<bias>>,
                                     bias |-> W[1]]])]

\* Variant: the layer is stored with its bias disabled.
add_inner_product_nobias(b, name, W, bias, input_channels, output_channels, has_bias, input_name, output_name) ==
    [b EXCEPT !.spec.neuralNetwork.layers =
        Append(@, [name |-> name, input |-> <<input_name>>,
                   output |-> <<output_name>>,
                   innerProduct |-> [inputChannels |-> input_channels,
                                     outputChannels |-> output_channels,
                                     hasBias |-> FALSE,
                                     weights |-> W,
                                     bias |-> bias]])]

\* builder.add_inner_product: append one fully connected layer.
add_inner_product(b, name, W, bias, input_channels, output_channels, has_bias, input_name, output_name) ==
    [b EXCEPT !.spec.neuralNetwork.layers =
        Append(@, [name |-> name, input |-> <<input_name>>,
                   output |-> <<output_name>>,
                   innerProduct |-> [inputChannels |-> input_channels,
                                     outputChannels |-> output_channels,
                                     hasBias |-> has_bias,
                                     weights |-> W,
                                     bias |-> bias]])]

\* MLModel(model_spec): the container around a description.
MLModel(spec) == [kind |-> "MLModel", spec |-> spec]

\* The three metadata setters of the container.
set_short_description(m, v) == [m EXCEPT !.spec.description.metadata.shortDescription = v]
set_author(m, v) == [m EXCEPT !.spec.description.metadata.author = v]
\* Variant: the version assignment has no effect.
set_version_dropped(m, v) == m
set_version(m, v) == [m EXCEPT !.spec.description.metadata.versionString = v]

\* ---------------------------------------------------------- the artifact
\* What save writes: the serialized description.
Serialize(m) == [kind |-> "mlmodel", spec |-> m.spec]

IsArtifact(f) == f.kind = "mlmodel"

\* Variants: a save that never overwrites, and one that keeps the metadata
\* of the artifact already in the file.
saveKeepExisting(f, m) == IF f = NoFile THEN Serialize(m) ELSE f
saveKeepMetadata(f, m) ==
    IF IsArtifact(f)
    THEN [kind |-> "mlmodel",
          spec |-> [m.spec EXCEPT !.description.metadata = f.spec.description.metadata]]
    ELSE Serialize(m)
\* save(path) replaces the file content.
save(f, m) == Serialize(m)

\* ------------------------------------------------- evaluating an artifact
\* Inner product layer: out[j] = sum_i W[j][i] * in[i] (+ bias[j]).
InnerProduct(p, in) ==
    [j \in 1..p.outputChannels |->
        LET dot == RSum([i \in 1..p.inputChannels |-> RMul(p.weights[j][i], in[i])])
        IN  IF p.hasBias THEN RAdd(dot, p.bias[j]) ELSE dot]

\* Run the layers in order over named blobs; a layer whose input blob does
\* not exist makes the evaluation fail.
RECURSIVE RunLayers(_, _)
RunLayers(layers, blobs) ==
    IF layers = <<>> THEN blobs
    ELSE LET l == Head(layers)
         IN  IF l.input[1] \notin DOMAIN blobs THEN [error |-> <<>>]
             ELSE RunLayers(Tail(layers),
                    [n \in DOMAIN blobs \cup {l.output[1]} |->
                        IF n = l.output[1]
                        THEN InnerProduct(l.innerProduct, blobs[l.input[1]])
                        ELSE blobs[n]])

PredictError == [kind |-> "error"]

\* The number an artifact returns under its declared output name when the
\* number x is supplied under its declared input name.
Predict(f, x) ==
    LET d == f.spec.description
    IN  IF Len(d.input) # 1 \/ Len(d.output) # 1 THEN PredictError
        ELSE IF f.spec.type = "glmRegressor"
        THEN LET g == f.spec.glmRegressor
             IN  RAdd(g.offset[1], RMul(g.weights[1][1], x))
        ELSE LET blobs == RunLayers(f.spec.neuralNetwork.layers,
                                    [n \in {d.input[1].name} |-> <<x>>])
             IN  IF d.output[1].name \in DOMAIN blobs
                 THEN blobs[d.output[1].name][1]
                 ELSE PredictError

Inputs == {Rat(n, d) : n \in -MaxInput..MaxInput, d \in 1..2}


\* ------------------------------------------------------------ the scripts
Scripts == {"trainer", "manual"}

\* Variant: the trainer script prints before it saves.
TrainerStepsPrintFirst ==
    <<"LinearRegression", "fit", "convert", "short_description", "author",
      "version", "print", "save">>
\* The statements of each script, in program order.
TrainerSteps ==
    <<"LinearRegression", "fit", "convert", "short_description", "author",
      "version", "save", "print">>
ManualSteps ==
    <<"NeuralNetworkBuilder", "add_inner_product", "spec", "MLModel",
      "short_description", "author", "version", "save", "print">>

Steps(s) == IF s = "trainer" THEN TrainerSteps ELSE ManualSteps

IndexOf(seq, e) == CHOOSE i \in 1..Len(seq) : seq[i] = e

\* The statement after `step`, or "done" past the last one.
NextPc(s, step) ==
    LET i == IndexOf(Steps(s), step)
    IN  IF i = Len(Steps(s)) THEN "done" ELSE Steps(s)[i + 1]

\* The lines each script prints after saving (the leading tick glyph
\* of the first line is left out).
TrainerLines ==
    <<"Created simple_model.mlmodel", "   Formula: y = 2*x + 1",
      "   Input: 'input' (double)", "   Output: 'output' (double)">>
ManualLines ==
    <<"Created simple_model.mlmodel", "   Formula: y = 2*x + 1",
      "   Input: 'input' (array of size 1)", "   Output: 'output' (array of size 1)",
      "   Test: input [3.0] should output [7.0]">>

Lines(s) == IF s = "trainer" THEN TrainerLines ELSE ManualLines

\* Variant: the exception is swallowed and the script carries on.
OnRaiseSwallowed(s, step) == NextPc(s, step)
\* Where control goes when a statement raises: nothing catches it, the
\* interpreter exits.
OnRaise(s, step) == "aborted"

VARIABLES
    file,          \* content of simple_model.mlmodel
    script,        \* the script of the current (or last) run, "none" before any
    pc,            \* the statement about to execute, or "idle"/"done"/"aborted"
    model,         \* trainer: the regressor; manual: the model container
    coreml_model,  \* trainer: the converted model
    builder,       \* manual: the network builder
    model_spec,    \* manual: builder.spec
    console,       \* lines printed by the current run
    fileAtStart,   \* history: file content when the current run started
    trace,         \* history: statements executed by the current run
    raised,        \* history: the statement that raised in this run, or "none"
    produced,      \* history: contents each script has saved so far
    log            \* history: finished runs, oldest first

vars == <<file, script, pc, model, coreml_model, builder, model_spec, console,
          fileAtStart, trace, raised, produced, log>>

locals == <<model, coreml_model, builder, model_spec>>

Terminal == {"idle", "done", "aborted"}

Init ==
    /\ file = NoFile
    /\ script = "none"
    /\ pc = "idle"
    /\ model = None
    /\ coreml_model = None
    /\ builder = None
    /\ model_spec = None
    /\ console = <<>>
    /\ fileAtStart = NoFile
    /\ trace = <<>>
    /\ raised = "none"
    /\ produced = [s \in Scripts |-> {}]
    /\ log = <<>>

\* The user launches a script; a fresh interpreter has no bindings.
Start(s) ==
    /\ pc \in Terminal
    /\ Len(log) < MaxRuns
    /\ script' = s
    /\ pc' = Steps(s)[1]
    /\ model' = None
    /\ coreml_model' = None
    /\ builder' = None
    /\ model_spec' = None
    /\ console' = <<>>
    /\ fileAtStart' = file
    /\ trace' = <<>>
    /\ raised' = "none"
    /\ UNCHANGED <<file, produced, log>>

At(s, step) == script = s /\ pc = step

\* Control moves to `next`; reaching "done" ends the run.
Goto(step, next) ==
    /\ pc' = next
    /\ trace' = Append(trace, step)
    /\ log' = IF next = "done"
              THEN Append(log, [script |-> script, outcome |-> "done"])
              ELSE log
    /\ UNCHANGED <<script, fileAtStart, raised>>

\* The statement completes normally.
Returns(step) == Goto(step, NextPc(script, step))

\* The statement raises; no binding is made.
Raises(step) ==
    /\ pc' = OnRaise(script, step)
    /\ trace' = Append(trace, step)
    /\ raised' = step
    /\ log' = Append(log, [script |-> script, outcome |-> "aborted"])
    /\ UNCHANGED <<script, fileAtStart, locals, console, produced>>

\* ---- create_simple_model.py
trainer_LinearRegression ==
    /\ At("trainer", "LinearRegression")
    /\ \/ /\ model' = LinearRegression
          /\ Returns("LinearRegression")
          /\ UNCHANGED <<file, coreml_model, builder, model_spec, console, produced>>
       \/ Raises("LinearRegression") /\ UNCHANGED file

trainer_fit ==
    /\ At("trainer", "fit")
    /\ \/ /\ model' = fit(model, X, y)
          /\ Returns("fit")
          /\ UNCHANGED <<file, coreml_model, builder, model_spec, console, produced>>
       \/ Raises("fit") /\ UNCHANGED file

trainer_convert ==
    /\ At("trainer", "convert")
    /\ \/ /\ coreml_model' = convert(model, << <<"input", "double">> >>, <<"output">>)
          /\ Returns("convert")
          /\ UNCHANGED <<file, model, builder, model_spec, console, produced>>
       \/ Raises("convert") /\ UNCHANGED file

trainer_short_description ==
    /\ At("trainer", "short_description")
    /\ \/ /\ coreml_model' = set_short_description(coreml_model,
                                "Simple linear regression: y = 2*x + 1")
          /\ Returns("short_description")
          /\ UNCHANGED <<file, model, builder, model_spec, console, produced>>
       \/ Raises("short_description") /\ UNCHANGED file

trainer_author ==
    /\ At("trainer", "author")
    /\ \/ /\ coreml_model' = set_author(coreml_model, "CoreML Experiment")
          /\ Returns("author")
          /\ UNCHANGED <<file, model, builder, model_spec, console, produced>>
       \/ Raises("author") /\ UNCHANGED file

trainer_version ==
    /\ At("trainer", "version")
    /\ \/ /\ coreml_model' = set_version(coreml_model, "1.0")
          /\ Returns("version")
          /\ UNCHANGED <<file, model, builder, model_spec, console, produced>>
       \/ Raises("version") /\ UNCHANGED file

\* A save that raises may already have opened the file for writing.
trainer_save ==
    /\ At("trainer", "save")
    /\ \/ /\ file' = save(file, coreml_model)
          /\ produced' = [produced EXCEPT !["trainer"] = @ \cup {file'}]
          /\ Returns("save")
          /\ UNCHANGED <<locals, console>>
       \/ Raises("save") /\ file' \in {file, Truncated}

trainer_print ==
    /\ At("trainer", "print")
    /\ Len(console) < Len(TrainerLines)
    /\ console' = Append(console, TrainerLines[Len(console) + 1])
    /\ Goto("print", IF Len(console') = Len(TrainerLines)
                     THEN NextPc("trainer", "print") ELSE "print")
    /\ UNCHANGED <<file, locals, produced>>

\* ---- create_simple_model_manual.py
manual_NeuralNetworkBuilder ==
    /\ At("manual", "NeuralNetworkBuilder")
    /\ \/ /\ builder' = NeuralNetworkBuilder(<< <<"input", "Array(1)">> >>,
                                             << <<"output", "Array(1)">> >>)
          /\ Returns("NeuralNetworkBuilder")
          /\ UNCHANGED <<file, model, coreml_model, model_spec, console, produced>>
       \/ Raises("NeuralNetworkBuilder") /\ UNCHANGED file

manual_add_inner_product ==
    /\ At("manual", "add_inner_product")
    /\ \/ /\ builder' = add_inner_product(builder, "linear", << <<R(2)>> >>, <<R(1)>>,
                                          1, 1, TRUE, "input", "output")
          /\ Returns("add_inner_product")
          /\ UNCHANGED <<file, model, coreml_model, model_spec, console, produced>>
       \/ Raises("add_inner_product") /\ UNCHANGED file

manual_spec ==
    /\ At("manual", "spec")
    /\ model_spec' = builder.spec
    /\ Returns("spec")
    /\ UNCHANGED <<file, model, coreml_model, builder, console, produced>>

manual_MLModel ==
    /\ At("manual", "MLModel")
    /\ \/ /\ model' = MLModel(model_spec)
          /\ Returns("MLModel")
          /\ UNCHANGED <<file, coreml_model, builder, model_spec, console, produced>>
       \/ Raises("MLModel") /\ UNCHANGED file

manual_short_description ==
    /\ At("manual", "short_description")
    /\ \/ /\ model' = set_short_description(model, "Simple linear function: y = 2*x + 1")
          /\ Returns("short_description")
          /\ UNCHANGED <<file, coreml_model, builder, model_spec, console, produced>>
       \/ Raises("short_description") /\ UNCHANGED file

manual_author ==
    /\ At("manual", "author")
    /\ \/ /\ model' = set_author(model, "CoreML Experiment")
          /\ Returns("author")
          /\ UNCHANGED <<file, coreml_model, builder, model_spec, console, produced>>
       \/ Raises("author") /\ UNCHANGED file

manual_version ==
    /\ At("manual", "version")
    /\ \/ /\ model' = set_version(model, "1.0")
          /\ Returns("version")
          /\ UNCHANGED <<file, coreml_model, builder, model_spec, console, produced>>
       \/ Raises("version") /\ UNCHANGED file

manual_save ==
    /\ At("manual", "save")
    /\ \/ /\ file' = save(file, model)
          /\ produced' = [produced EXCEPT !["manual"] = @ \cup {file'}]
          /\ Returns("save")
          /\ UNCHANGED <<locals, console>>
       \/ Raises("save") /\ file' \in {file, Truncated}

manual_print ==
    /\ At("manual", "print")
    /\ Len(console) < Len(ManualLines)
    /\ console' = Append(console, ManualLines[Len(console) + 1])
    /\ Goto("print", IF Len(console') = Len(ManualLines)
                     THEN NextPc("manual", "print") ELSE "print")
    /\ UNCHANGED <<file, locals, produced>>

\* Every statement of a running script.
Step ==
    \/ trainer_LinearRegression
    \/ trainer_fit
    \/ trainer_convert
    \/ trainer_short_description
    \/ trainer_author
    \/ trainer_version
    \/ trainer_save
    \/ trainer_print
    \/ manual_NeuralNetworkBuilder
    \/ manual_add_inner_product
    \/ manual_spec
    \/ manual_MLModel
    \/ manual_short_description
    \/ manual_author
    \/ manual_version
    \/ manual_save
    \/ manual_print

Next ==
    \/ \E s \in Scripts : Start(s)
    \/ Step

Spec == Init /\ [][Next]_vars

\* Execution is synchronous: a running script always takes its next statement.
FairSpec == Spec /\ WF_vars(Step)


\* =========================================================== properties
Affine(x) == RAdd(RMul(R(2), x), R(1))

Range(seq) == {seq[i] : i \in 1..Len(seq)}

Other(s) == IF s = "trainer" THEN "manual" ELSE "trainer"

\* The model object the running script hands to save.
Saved(s) == IF s = "trainer" THEN coreml_model ELSE model

Meta(f) == f.spec.description.metadata

OneLinearLayer(spec) ==
    /\ spec.type = "neuralNetwork"
    /\ Len(spec.neuralNetwork.layers) = 1
    /\ LET p == spec.neuralNetwork.layers[1].innerProduct
       IN  /\ p.weights = << <<R(2)>> >>
           /\ p.bias = <<R(1)>>
           /\ p.hasBias = TRUE

C3_ManualLayerIsLiteral ==
    /\ (script = "manual" /\ "add_inner_product" \in Range(trace)
          /\ raised # "add_inner_product") => OneLinearLayer(builder.spec)
    /\ (script = "manual" /\ model_spec # None) => OneLinearLayer(model_spec)
    /\ (script = "manual" /\ model # None) => OneLinearLayer(model.spec)
    /\ \A f \in produced["manual"] : OneLinearLayer(f.spec)
    /\ (script = "manual" /\ "save" \in Range(trace) /\ raised = "none") =>
          OneLinearLayer(file.spec)

C3_Witness ==
    /\ script = "manual" /\ pc = "done"
    /\ IsArtifact(file) /\ OneLinearLayer(file.spec)

C5_RerunOverwritesSame ==
    /\ pc = "done" => /\ file = Serialize(Saved(script))
                      /\ produced[script] = {file}
    /\ \A s \in Scripts : Cardinality(produced[s]) <= 1

C5_Witness ==
    /\ pc = "done"
    /\ fileAtStart \in produced[script]
    /\ file = fileAtStart
    /\ Len(log) >= 2
    /\ log[Len(log) - 1] = [script |-> script, outcome |-> "done"]

\* C6: when the two scripts have completed one right after the other, in
\* either order, the file is the artifact of the one that ran last and is
\* not the earlier one's artifact, which was there when the last run began.
RanBothInARow ==
    /\ pc = "done"
    /\ Len(log) >= 2
    /\ log[Len(log)] = [script |-> script, outcome |-> "done"]
    /\ log[Len(log) - 1] = [script |-> Other(script), outcome |-> "done"]

C6_LastRunWins ==
    RanBothInARow =>
        /\ fileAtStart \in produced[Other(script)]
        /\ file = Serialize(Saved(script))
        /\ file \notin produced[Other(script)]
        /\ file.spec.type # fileAtStart.spec.type
        /\ Meta(file) = Meta(Saved(script))

C6_Witness ==
    /\ RanBothInARow
    /\ script = "trainer"
    /\ file.spec.type = "glmRegressor"
    /\ fileAtStart.spec.type = "neuralNetwork"

\* C7: once a statement has raised, the script is stopped there: the
\* statements executed are exactly those up to the one that raised, each
\* once, nothing is printed, and unless the statement was the save the file
\* is what it was when the run began.
C7_FailureIsFatal ==
    raised # "none" =>
        /\ pc = "aborted"
        /\ raised \in Range(Steps(script))
        /\ trace = SubSeq(Steps(script), 1, IndexOf(Steps(script), raised))
        /\ console = <<>>
        /\ log[Len(log)] = [script |-> script, outcome |-> "aborted"]
        /\ raised # "save" => file = fileAtStart

C7_Witness ==
    /\ raised = "convert"
    /\ pc = "aborted"
    /\ IsArtifact(fileAtStart)
    /\ file = fileAtStart

SaveDone == "save" \in Range(trace) /\ raised = "none"

C9_SaveBeforePrint ==
    console # <<>> =>
        /\ raised = "none"
        /\ file \in produced[script]
        /\ \E i \in 1..Len(trace) :
              trace[i] = "save" /\ \A j \in 1..i : trace[j] # "print"

C9_SaveThenPrintThenEnd ==
    /\ []C9_SaveBeforePrint
    /\ [][SaveDone => file' = file]_vars
    /\ (pc \notin Terminal) ~> (pc = "done" \/ raised # "none")

C9_Witness ==
    /\ pc = "done"
    /\ console = Lines(script)
    /\ script = "manual"
    /\ trace[Len(trace)] = "print"

\* C10: when the save is about to run, the model carries a short
\* description, an author and a version; every artifact in the file carries
\* all three, with author "CoreML Experiment" and version "1.0", for both
\* scripts.
MetadataSet(m) ==
    /\ m.shortDescription # ""
    /\ m.author # ""
    /\ m.versionString # ""

C10_MetadataBeforeSave ==
    /\ pc = "save" => MetadataSet(Meta(Saved(script)))
    /\ \A s \in Scripts : \A f \in produced[s] :
          /\ MetadataSet(Meta(f))
          /\ Meta(f).author = "CoreML Experiment"
          /\ Meta(f).versionString = "1.0"
    /\ IsArtifact(file) => /\ MetadataSet(Meta(file))
                           /\ Meta(file).author = "CoreML Experiment"
                           /\ Meta(file).versionString = "1.0"

C10_Witness ==
    /\ pc = "save"
    /\ script = "manual"
    /\ IsArtifact(file)
    /\ file.spec.type = "glmRegressor"
    /\ Meta(model).versionString = Meta(file).versionString

====
